---- MODULE Spec2Model ----
(***************************************************************************)
(* Model of figma-plugin/code.js: the script that loads five "Inter" font  *)
(* styles and then builds the Hero, Projects and About sections of the     *)
(* portfolio page out of host frames, rectangles and text nodes.           *)
(*                                                                         *)
(* Host nodes are records kept in the sequence `nodes`; a node's id is its *)
(* index.  Sizes the host computes by text shaping (the width and height   *)
(* of a text node) are nondeterministic choices from small sets.           *)
(* Fractions are exact: a colour channel n/255 is the pair (num, den), an  *)
(* opacity is a percentage.                                                *)
(***************************************************************************)
EXTENDS Integers, Sequences, FiniteSets, TLC

VARIABLES
    pc,          \* position of build(): the next step to run
    fontIdx,     \* loadAllFonts: index of the next variant to load
    fontsLoaded, \* host: the font styles whose load has completed
    nodes,       \* host: every node created so far, in creation order
    root,        \* build: id of the root frame (0 before it exists)
    projSec,     \* build: id of the Projects frame (0 before it exists)
    aboutSec,    \* build: id of the About frame (0 before it exists)
    Y,           \* build: running y-position inside root
    ry,          \* build: running y-position inside the Projects frame
    rowIdx,      \* build: index of the next project row
    leftY,       \* build: running y of the About left column
    rightY,      \* build: running y of the About right column
    err,         \* the error build() rejected with ("" when none)
    closeCalls,  \* host: the messages passed to figma.closePlugin, in order
    hexIn,       \* rgb harness: the argument
    rgbOut,      \* rgb harness: the outcome of rgb(hexIn)
    rowIn,       \* project-row harness: geometry and project entry
    rowOut       \* project-row harness: the nodes the loop body created

vars == <<pc, fontIdx, fontsLoaded, nodes, root, projSec, aboutSec, Y, ry,
          rowIdx, leftY, rightY, err, closeCalls, hexIn, rgbOut, rowIn, rowOut>>

buildVars == <<pc, fontIdx, fontsLoaded, nodes, root, projSec, aboutSec, Y, ry,
               rowIdx, leftY, rightY, err, closeCalls>>

----------------------------------------------------------------------------
(* Arithmetic of the script *)

Max(a, b) == IF a >= b THEN a ELSE b

Min(a, b) == IF a <= b THEN a ELSE b

\* Math.round(x * num / den) for an integer x >= 0: floor(x*num/den + 1/2)
RoundMul(x, num, den) == (2 * x * num + den) \div (2 * den)

----------------------------------------------------------------------------
(* Colour helpers.  A hex colour is a sequence of one-character strings.   *)

\* a number of the script: NaN, or the exact fraction num/den
NaN == [nan |-> TRUE, num |-> 0, den |-> 1]

Num(n) == [nan |-> FALSE, num |-> n, den |-> 1]

LowerDigits == <<"0","1","2","3","4","5","6","7","8","9","a","b","c","d","e","f">>

UpperDigits == <<"0","1","2","3","4","5","6","7","8","9","A","B","C","D","E","F">>

IsHexDigit(c) ==
    \E i \in 1..16 : LowerDigits[i] = c \/ UpperDigits[i] = c

DigitVal(c) ==
    (CHOOSE i \in 1..16 : LowerDigits[i] = c \/ UpperDigits[i] = c) - 1

IsWhiteSpace(c) == c \in {" ", "\t", "\n"}

\* String.prototype.slice(a, b) for 0 <= a <= b
Slice(s, a, b) == SubSeq(s, a + 1, Min(b, Len(s)))

RECURSIVE StripWS(_)
StripWS(s) ==
    IF s # <<>> /\ IsWhiteSpace(Head(s)) THEN StripWS(Tail(s)) ELSE s

\* the value of the longest prefix of hex digits of s, continuing from acc
RECURSIVE DigitsValue(_, _)
DigitsValue(s, acc) ==
    IF s # <<>> /\ IsHexDigit(Head(s))
    THEN DigitsValue(Tail(s), 16 * acc + DigitVal(Head(s)))
    ELSE acc

\* parseInt(s, 16): leading white space, an optional sign, an optional 0x
\* prefix, then the longest run of hex digits; NaN when that run is empty.
ParseInt16(s) ==
    LET t    == StripWS(s)
        neg  == t # <<>> /\ Head(t) = "-"
        u    == IF t # <<>> /\ Head(t) \in {"+", "-"} THEN Tail(t) ELSE t
        v    == IF Len(u) >= 2 /\ u[1] = "0" /\ u[2] \in {"x", "X"}
                THEN SubSeq(u, 3, Len(u)) ELSE u
    IN  IF v = <<>> \/ ~IsHexDigit(Head(v)) THEN NaN
        ELSE IF neg THEN Num(0 - DigitsValue(v, 0)) ELSE Num(DigitsValue(v, 0))

\* n / 255 as an exact fraction; NaN / 255 is NaN
Over255(v) == IF v.nan THEN NaN ELSE [v EXCEPT !.den = 255]

rgb(hex) ==
    [r |-> Over255(ParseInt16(Slice(hex, 1, 3))),
     g |-> Over255(ParseInt16(Slice(hex, 3, 5))),
     b |-> Over255(ParseInt16(Slice(hex, 5, 7)))]

\* opacity is a percentage: 100 is the default 1
fill(hex, opacity) == <<[type |-> "SOLID", color |-> rgb(hex), opacity |-> opacity]>>

noFill == <<>>

\* the literal colours of the script
Hex(a, b, c, d, e, f) == <<"#", a, b, c, d, e, f>>

NoHex == <<>>

C_1a1208 == Hex("1","a","1","2","0","8")
C_161616 == Hex("1","6","1","6","1","6")
C_FEFEFE == Hex("F","E","F","E","F","E")
C_333333 == Hex("3","3","3","3","3","3")
C_ffffff == Hex("f","f","f","f","f","f")
C_DDE7E7 == Hex("D","D","E","7","E","7")
C_555555 == Hex("5","5","5","5","5","5")
C_888888 == Hex("8","8","8","8","8","8")
C_fafefe == Hex("f","a","f","e","f","e")
C_999999 == Hex("9","9","9","9","9","9")
C_5a5a5a == Hex("5","a","5","a","5","a")
C_cccccc == Hex("c","c","c","c","c","c")
C_005397 == Hex("0","0","5","3","9","7")
C_1d1d1d == Hex("1","d","1","d","1","d")
C_F5F9FC == Hex("F","5","F","9","F","C")

----------------------------------------------------------------------------
(* Host nodes and the primitive helpers.  A helper returns the node it     *)
(* creates (btn, inlineRow and the icon loop: the sequence of nodes they   *)
(* create); parent.appendChild is the node's parent field together with    *)
(* its place in `nodes`.  Parent 0 is the page.                            *)

\* what figma.createRectangle / createFrame / createText return
NewNode(type, name) ==
    [type |-> type, name |-> name, parent |-> 0, x |-> 0, y |-> 0,
     w |-> 100, h |-> 100, fills |-> noFill, strokes |-> <<>>, font |-> "",
     chars |-> "", clips |-> FALSE, rotation |-> 0]

rect(parent, x, y, w, h, hex, opacity, name) ==
    [NewNode("RECTANGLE", name) EXCEPT
       !.x = x, !.y = y, !.w = w, !.h = h,
       !.fills = fill(hex, opacity), !.parent = parent]

frame(parent, x, y, w, h, hex, name) ==
    [NewNode("FRAME", name) EXCEPT
       !.x = x, !.y = y, !.w = w, !.h = h,
       !.fills = IF hex # NoHex THEN fill(hex, 100) ELSE noFill,
       !.clips = FALSE, !.parent = parent]

\* the defaults of txt's opts; 0 stands for null (fixedW, lineH)
DefaultOpts ==
    [size |-> 16, weight |-> "Regular", color |-> C_161616, opacity |-> 100,
     fixedW |-> 0, lineH |-> 0, tracking |-> 0, align |-> "LEFT",
     decoration |-> "NONE", name |-> "Text"]

Opts(given) == given @@ DefaultOpts

\* m is the size the host's text shaping reports once the characters are set:
\* with fixedW the width stays fixedW and only the height is the host's.
txt(parent, content, x, y, opts, m) ==
    [NewNode("TEXT", opts.name) EXCEPT
       !.font = opts.weight,
       !.w = IF opts.fixedW # 0 THEN opts.fixedW ELSE m.w,
       !.h = m.h,
       !.chars = content,
       !.fills = fill(opts.color, opts.opacity),
       !.x = x, !.y = y, !.parent = parent]

InlineRowH == 30

\* the two texts of one row; the caller advances by InlineRowH
inlineRow(parent, x, y, blueStr, darkStr, mBlue, mDark) ==
    LET blue == txt(parent, blueStr, x, y,
                    Opts([size |-> 16, weight |-> "Bold", color |-> C_005397]), mBlue)
    IN  << blue,
           txt(parent, darkStr, x + blue.w, y,
               Opts([size |-> 16, weight |-> "Regular", color |-> C_1d1d1d,
                     opacity |-> 68]), mDark) >>

BtnW == 164

BtnH == 52

\* the button frame, whose id will be f, then its label centred in it (m: the
\* label's shaped size; the sizes drawn are even, so the halves are exact)
btn(f, parent, label, x, y, borderHex, textHex, m) ==
    << [NewNode("FRAME", "Button - " \o label) EXCEPT
          !.w = BtnW, !.h = BtnH, !.x = x, !.y = y,
          !.fills = noFill,
          !.strokes = <<[type |-> "SOLID", color |-> rgb(borderHex)]>>,
          !.clips = FALSE, !.parent = parent],
       [NewNode("TEXT", "Text") EXCEPT
          !.font = "Medium", !.w = m.w, !.h = m.h,
          !.chars = label, !.fills = fill(textHex, 100),
          !.x = (BtnW - m.w) \div 2, !.y = (BtnH - m.h) \div 2,
          !.parent = f] >>

iconLabels == <<"Dribbble", "Instagram", "Behance", "Skype">>

\* the loop that lays out the four 24px social icons, 48px apart
iconRow(parent, ix, iy) ==
    [k \in 1..Len(iconLabels) |->
        [NewNode("RECTANGLE", iconLabels[k]) EXCEPT
           !.w = 24, !.h = 24, !.x = ix + 48 * (k - 1), !.y = iy,
           !.fills = fill(C_161616, 100), !.parent = parent]]

----------------------------------------------------------------------------
(* Sizes the host's text shaping may report *)

\* an auto-sized single-line label
LabelSizes == {[w |-> 120, h |-> 20]}

\* the label of a button
BtnTextSizes == {[w |-> 112, h |-> 18]}

\* "PRODUCT DESIGNER" at 74px in 1440px, line height 180: one or two lines
H1Heights == {180, 360}

\* the hero description, line height 50
HeroDescHeights == {300}

\* "Selected Projects" at 74px, line height 111
SelHeights == {111, 120}

\* a project title in 400px, line height 75: one or two lines
TitleHeights == {75, 150}

\* a project description in 400px, line height 24
DescHeights == {144}

\* the About headings, line height 60
ExpHeights == {60, 240}

LangHeights == {60}

SkillTitleHeights == {60}

\* the skills text in 560px, line height 30: two or three lines
SkillHeights == {60, 90}

\* the footer e-mail address at 20px
FooterEmailSizes == {[w |-> 190, h |-> 24], [w |-> 190, h |-> 30]}

----------------------------------------------------------------------------
(* Geometry of build() *)

FW == 1440

GW == 1200

\* mutant of GXof: the difference is not halved
GXof_notHalved(fw, gw) == fw - gw

\* grid left edge and column width, from the frame and grid widths
GXof(fw, gw) == (fw - gw) \div 2

COLof(gw) == gw \div 2

GX == GXof(FW, GW)

COL == COLof(GW)

HERO_H == 960

ROW_H == <<650, 700, 698>>

\* mutant of PROJ_TOTAL: the trailing padding is left out
PROJ_TOTAL_noTrailingPad == 80 + 120 + ROW_H[1] + 40 + ROW_H[2] + 40 + ROW_H[3]

PROJ_TOTAL == 80 + 120 + ROW_H[1] + 40 + ROW_H[2] + 40 + ROW_H[3] + 80

\* mutant of Advance: the running position is not advanced
Advance_skipped(y, h) == y

\* Y += h
Advance(y, h) == y + h

\* mutant of variants: the Light style is not loaded
variants_withoutLight == <<"Regular", "Medium", "SemiBold", "Bold">>

variants == <<"Regular", "Light", "Medium", "SemiBold", "Bold">>

projects ==
    << [imageLeft |-> TRUE, imageBg |-> C_DDE7E7, contentBg |-> C_DDE7E7,
        h |-> ROW_H[1], title |-> "Places2go.co",
        desc |-> "Personal projects are usually the most complicated ones.",
        role |-> "Co-Founder", year |-> "2017 - Present",
        btnLabel |-> "VIEW PROJECT", dark |-> FALSE],
       [imageLeft |-> FALSE, imageBg |-> C_161616, contentBg |-> C_161616,
        h |-> ROW_H[2], title |-> "Mobile Banking App",
        desc |-> "In-house UI designer, UX and project manager",
        role |-> "Product Designer", year |-> "2017",
        btnLabel |-> "View Project", dark |-> TRUE],
       [imageLeft |-> TRUE, imageBg |-> C_161616, contentBg |-> C_161616,
        h |-> ROW_H[3], title |-> "Cloudfinity Responsive App",
        desc |-> "A project that started with an idea. No features, no plans.",
        role |-> "Product Designer", year |-> "2016 - Present",
        btnLabel |-> "View Project", dark |-> TRUE] >>

\* mutant of leftBg: the left column always takes the image background
leftBg_alwaysImage(p) == p.imageBg

leftBg(p) == IF p.imageLeft THEN p.imageBg ELSE p.contentBg

rightBg(p) == IF p.imageLeft THEN p.contentBg ELSE p.imageBg

\* mutant of cX: the literal of the comment instead of the formula
cX_literal(col) == 56

\* content x inside the content column: 400px wide, right margin 24% of COL
cX(col) == col - 400 - RoundMul(col, 24, 100)

\* One iteration of the project loop, run when `base` nodes exist: the two
\* columns of the row at rowY (ids base+1 and base+2), the image placeholder
\* in one and the title, description, info row and button in the other.
\* mT, mD, mL, mB: the shaped sizes of the title, the description, a label
\* and the button label.
projectRow(base, sec, gx, col, rowY, p, mT, mD, mL, mB) ==
    LET lCol   == base + 1
        rCol   == base + 2
        info   == base + 6
        imgCol == IF p.imageLeft THEN lCol ELSE rCol
        cCol   == IF p.imageLeft THEN rCol ELSE lCol
        headC  == IF p.dark THEN C_fafefe ELSE C_161616
        bodyC  == IF p.dark THEN C_999999 ELSE C_5a5a5a
        listC  == IF p.dark THEN C_cccccc ELSE C_161616
        btnC   == IF p.dark THEN C_ffffff ELSE C_161616
        x      == cX(col)
        cY0    == RoundMul(p.h, 2, 10)
        tNode  == txt(cCol, p.title, x, cY0,
                      Opts([size |-> 50, weight |-> "Bold", color |-> headC,
                            fixedW |-> 400, lineH |-> 75, tracking |-> 1,
                            name |-> "Project Title"]), mT)
        cY1    == cY0 + mT.h + 24
        dNode  == txt(cCol, p.desc, x, cY1,
                      Opts([size |-> 16, weight |-> "Light", color |-> bodyC,
                            fixedW |-> 400, lineH |-> 24, tracking |-> 1,
                            name |-> "Project Description"]), mD)
        cY2    == cY1 + mD.h + 30
        cY3    == cY2 + 56 + 50
    IN  << frame(sec, gx, rowY, col, p.h, leftBg(p),
                 IF p.imageLeft THEN p.title \o " - Image"
                                ELSE p.title \o " - Content"),
           frame(sec, gx + col, rowY, col, p.h, rightBg(p),
                 IF p.imageLeft THEN p.title \o " - Content"
                                ELSE p.title \o " - Image"),
           txt(imgCol, "[Image: " \o p.title \o "]",
               col \div 2 - 80, p.h \div 2 - 10,
               Opts([size |-> 14, weight |-> "Regular",
                     color |-> IF p.dark THEN C_555555 ELSE C_888888]), mL),
           tNode,
           dNode,
           frame(cCol, x, cY2, 300, 56, NoHex, "Info"),
           txt(info, "My role", 0, 0,
               Opts([size |-> 17, weight |-> "SemiBold", color |-> listC]), mL),
           txt(info, p.role, 0, 22,
               Opts([size |-> 14, weight |-> "Regular", color |-> listC]), mL),
           txt(info, "Year", 160, 0,
               Opts([size |-> 17, weight |-> "SemiBold", color |-> listC]), mL),
           txt(info, p.year, 160, 22,
               Opts([size |-> 14, weight |-> "Regular", color |-> listC]), mL) >>
        \o btn(base + 11, cCol, p.btnLabel, x, cY3, btnC, btnC, mB)

\* ry += p.h + 40
nextRowY(rowY, p) == rowY + p.h + 40

\* the three bars of the hamburger box
hamBars(ham) ==
    [k \in 1..3 |->
        [NewNode("RECTANGLE", "Rectangle") EXCEPT
           !.w = 32, !.h = 2, !.x = 14, !.y = <<19, 29, 39>>[k],
           !.fills = fill(C_FEFEFE, 100), !.parent = ham]]

\* 1. HERO SECTION at originY in the root frame, run when `base` nodes exist.
\* mL, mH1, mDesc: the shaped sizes of a label, the H1 and the description.
heroSection(base, rootId, originY, mL, mH1, mDesc) ==
    LET hero      == base + 1
        ham       == base + 4
        logoGroup == base + 9
        hamX      == FW - RoundMul(FW, 5, 100) - 60
        logoName  == txt(logoGroup, "Catalin Sandru", 0, 0,
                         Opts([size |-> 24, weight |-> "Bold", color |-> C_161616,
                               decoration |-> "UNDERLINE"]), mL)
        lgW       == Max(logoName.w, 160)
        RX        == FW - RoundMul(FW, 5, 100)
        CY        == RoundMul(HERO_H, 1, 2)
        email0    == txt(hero, "hi@catasandru.com", 0, CY - 40,
                         Opts([size |-> 20, weight |-> "Bold", color |-> C_161616,
                               name |-> "Email"]), mL)
        emailNode == [email0 EXCEPT !.x = RX - email0.w]
        divLine   == rect(hero, RX - 190, CY - 40 + emailNode.h + 20, 190, 5,
                          C_161616, 100, "Contact Divider")
        h1        == txt(hero, "PRODUCT DESIGNER", 0, RoundMul(HERO_H, 38, 100),
                         Opts([size |-> 74, weight |-> "Bold", color |-> C_161616,
                               fixedW |-> FW, lineH |-> 180, tracking |-> 2,
                               align |-> "CENTER", name |-> "Hero H1"]), mH1)
        textY     == h1.y + h1.h - 16
        textW     == FW - 200
    IN  << [frame(rootId, 0, originY, FW, HERO_H, NoHex, "Section - Hero")
              EXCEPT !.clips = TRUE],
           rect(hero, 0, 0, FW, HERO_H, C_1a1208, 100, "Video BG"),
           [NewNode("RECTANGLE", "White Overlay") EXCEPT
              !.w = FW, !.h = HERO_H,
              !.fills = <<[type |-> "SOLID",
                           color |-> [r |-> Num(1), g |-> Num(1), b |-> Num(1)],
                           opacity |-> 70]>>,
              !.parent = hero],
           frame(hero, hamX, 0, 60, 60, C_161616, "Hamburger") >>
        \o hamBars(ham)
        \o << rect(hero, 20, 20, 40, 40, C_161616, 100, "Logo Mark"),
              [frame(hero, 0, 0, 200, 60, NoHex, "Logo Label") EXCEPT
                 !.w = lgW, !.h = 60, !.rotation = -90, !.x = -20,
                 !.y = RoundMul(HERO_H, 1, 2) + RoundMul(lgW, 1, 2)],
              logoName,
              txt(logoGroup, "Product Designer", 0, logoName.h + 4,
                  Opts([size |-> 16, weight |-> "Regular", color |-> C_161616]), mL),
              emailNode,
              divLine >>
        \o iconRow(hero, RX - (24 * 4 + 24 * 3), divLine.y + 5 + 16)
        \o << h1,
              rect(hero, 100, textY, textW, 8, C_333333, 100, "Hero Border"),
              txt(hero, "I'm Catalin Sandru a Product designer born in Romania",
                  100, textY + 16,
                  Opts([size |-> 28, weight |-> "SemiBold", color |-> C_161616,
                        fixedW |-> textW, lineH |-> 50,
                        name |-> "Hero Description"]), mDesc) >>

\* for (const [a, b] of rows) y += inlineRow(parent, x, y, a, b): the nodes
RECURSIVE inlineRows(_, _, _, _, _)
inlineRows(parent, x, y, rows, mL) ==
    IF rows = <<>> THEN <<>>
    ELSE inlineRow(parent, x, y, Head(rows)[1], Head(rows)[2], mL, mL)
         \o inlineRows(parent, x, y + InlineRowH, Tail(rows), mL)

expRows ==
    << <<"2016 - Present", "Docler Holding Luxembourg">>,
       <<"2013 - 2016", "Commercial Carpatica Bank, Sibiu, Romania">>,
       <<"2010 - 2013", "Commercial Carpatica Bank, Sibiu, Romania">>,
       <<"2006 - 2010", "Freelancer">> >>

langRows ==
    << <<"English", "Fluent">>, <<"Italian", "Intermediate">>,
       <<"Romanian", "Native">> >>

\* mutant of footerTop: only the left column is looked at
footerTop_leftOnly(ly, rY, skillH) == ly + 80

\* fTopY: 80 below the lower of the two columns
footerTop(ly, rY, skillH) == Max(ly, rY + skillH) + 80

footerEmailY(fTopY) == fTopY + 52 + 48

footerDivY(fEmailY, emailH) == fEmailY + emailH + 16

footerSocialY(fDivY) == fDivY + 5 + 16

finalAboutH(fSocialY) == fSocialY + 24 + 80

\* the footer strip, run when `base` nodes exist: LinkedIn button, e-mail,
\* divider, social icons
footerStrip(base, sec, fTopY, mB, mE) ==
    LET b0     == btn(base + 1, sec, "View LinkedIn", 0, fTopY,
                      C_161616, C_161616, mB)
        eY     == footerEmailY(fTopY)
        fEmail == txt(sec, "hi@catasandru.com", 0, eY,
                      Opts([size |-> 20, weight |-> "Bold", color |-> C_161616,
                            align |-> "CENTER", name |-> "Footer Email"]), mE)
        dY     == footerDivY(eY, fEmail.h)
    IN  << [b0[1] EXCEPT !.x = RoundMul(FW - 164, 1, 2)],
           b0[2],
           [fEmail EXCEPT !.x = RoundMul(FW - fEmail.w, 1, 2)],
           rect(sec, RoundMul(FW - 190, 1, 2), dY, 190, 5, C_161616, 100,
                "Footer Divider") >>
        \o iconRow(sec, RoundMul(FW - (24 * 4 + 24 * 3), 1, 2), footerSocialY(dY))

----------------------------------------------------------------------------
(* build(): one action per stretch of the script.  Any host call of a     *)
(* stretch may throw (the first disjunct of each action); the promise of  *)
(* build() is then rejected with the host's error and the rest of build() *)
(* does not run.                                                          *)

FontLoadError == "font unavailable"

RenderError == "host call failed"

SuccessMessage == "Portfolio design created!"

\* the message the catch handler builds from the error
ErrorMessage(e) == "Error: " \o e

Throw(msg) ==
    /\ pc' = "rejected"
    /\ err' = msg
    /\ UNCHANGED <<fontIdx, fontsLoaded, nodes, root, projSec, aboutSec, Y, ry,
                   rowIdx, leftY, rightY, closeCalls>>

Harness == <<hexIn, rgbOut, rowIn, rowOut>>

\* loadAllFonts: await figma.loadFontAsync for the next variant
LoadFont ==
    /\ pc = "fonts"
    /\ fontIdx <= Len(variants)
    /\ \/ Throw(FontLoadError)
       \/ /\ fontsLoaded' = fontsLoaded \cup {variants[fontIdx]}
          /\ fontIdx' = fontIdx + 1
          /\ pc' = IF fontIdx = Len(variants) THEN "root" ELSE "fonts"
          /\ UNCHANGED <<nodes, root, projSec, aboutSec, Y, ry, rowIdx, leftY,
                         rightY, err, closeCalls>>
    /\ UNCHANGED Harness

\* the root frame, appended to the page; let Y = 0
CreateRoot ==
    /\ pc = "root"
    /\ \/ Throw(RenderError)
       \/ /\ nodes' = Append(nodes, frame(0, 0, 0, FW, 100, C_ffffff,
                                          "Portfolio - Catalin Sandru"))
          /\ root' = Len(nodes) + 1
          /\ Y' = 0
          /\ pc' = "hero"
          /\ UNCHANGED <<fontIdx, fontsLoaded, projSec, aboutSec, ry, rowIdx,
                         leftY, rightY, err, closeCalls>>
    /\ UNCHANGED Harness

\* 1. HERO SECTION, then Y += HERO_H
BuildHero ==
    /\ pc = "hero"
    /\ \/ Throw(RenderError)
       \/ \E mL \in LabelSizes, h1h \in H1Heights, dh \in HeroDescHeights :
            /\ nodes' = nodes \o heroSection(Len(nodes), root, Y, mL,
                                             [w |-> FW, h |-> h1h],
                                             [w |-> FW - 200, h |-> dh])
            /\ Y' = Advance(Y, HERO_H)
            /\ pc' = "projects"
            /\ UNCHANGED <<fontIdx, fontsLoaded, root, projSec, aboutSec, ry,
                           rowIdx, leftY, rightY, err, closeCalls>>
    /\ UNCHANGED Harness

\* 2. PROJECTS SECTION: the frame, the heading, ry and the first row index
BuildProjectsHead ==
    /\ pc = "projects"
    /\ \/ Throw(RenderError)
       \/ \E mL \in LabelSizes, sh \in SelHeights :
            LET sec  == Len(nodes) + 1
                selH == txt(sec, "Selected Projects", GX, 80,
                            Opts([size |-> 74, weight |-> "Bold",
                                  color |-> C_ffffff, lineH |-> 111,
                                  name |-> "Selected Projects"]),
                            [w |-> mL.w, h |-> sh])
            IN  /\ nodes' = nodes \o
                     << frame(root, 0, Y, FW, PROJ_TOTAL, C_161616,
                              "Section - Projects"),
                        selH >>
                /\ projSec' = sec
                /\ ry' = 80 + selH.h + 40
                /\ rowIdx' = 1
                /\ pc' = "rows"
                /\ UNCHANGED <<fontIdx, fontsLoaded, root, aboutSec, Y, leftY,
                               rightY, err, closeCalls>>
    /\ UNCHANGED Harness

\* one iteration of for (const p of projects); after the last, Y += PROJ_TOTAL
BuildProjectRow ==
    /\ pc = "rows"
    /\ rowIdx <= Len(projects)
    /\ \/ Throw(RenderError)
       \/ \E mL \in LabelSizes, mB \in BtnTextSizes,
             th \in TitleHeights, dh \in DescHeights :
            LET p == projects[rowIdx]
            IN  /\ nodes' = nodes \o
                     projectRow(Len(nodes), projSec, GX, COL, ry, p,
                                [w |-> 400, h |-> th], [w |-> 400, h |-> dh],
                                mL, mB)
                /\ ry' = nextRowY(ry, p)
                /\ rowIdx' = rowIdx + 1
                /\ IF rowIdx = Len(projects)
                   THEN /\ Y' = Advance(Y, PROJ_TOTAL)
                        /\ pc' = "about"
                   ELSE /\ Y' = Y
                        /\ pc' = "rows"
                /\ UNCHANGED <<fontIdx, fontsLoaded, root, projSec, aboutSec,
                               leftY, rightY, err, closeCalls>>
    /\ UNCHANGED Harness

\* 3. ABOUT SECTION: the frame (900 tall for now) and the Experience column
BuildAboutLeft ==
    /\ pc = "about"
    /\ \/ Throw(RenderError)
       \/ \E mL \in LabelSizes, eh \in ExpHeights :
            LET sec      == Len(nodes) + 1
                expTitle == txt(sec, "Experience", GX, 80,
                                Opts([size |-> 64, weight |-> "Bold",
                                      color |-> C_1d1d1d, lineH |-> 60,
                                      name |-> "Experience Heading"]),
                                [w |-> mL.w, h |-> eh])
                y1       == 80 + expTitle.h + 32
            IN  /\ nodes' = nodes \o
                     << frame(root, 0, Y, FW, 900, C_F5F9FC, "Section - About"),
                        expTitle >>
                     \o inlineRows(sec, GX, y1, expRows, mL)
                /\ aboutSec' = sec
                /\ leftY' = y1 + Len(expRows) * InlineRowH
                /\ rightY' = 80
                /\ pc' = "aboutRight"
                /\ UNCHANGED <<fontIdx, fontsLoaded, root, projSec, Y, ry,
                               rowIdx, err, closeCalls>>
    /\ UNCHANGED Harness

\* the Languages and Skills column; the skills text is the last node created
BuildAboutRight ==
    /\ pc = "aboutRight"
    /\ \/ Throw(RenderError)
       \/ \E mL \in LabelSizes, lh \in LangHeights, sth \in SkillTitleHeights,
             sh \in SkillHeights :
            LET langX == GX + COL
                langTitle == txt(aboutSec, "Languages", langX, rightY,
                                 Opts([size |-> 64, weight |-> "Bold",
                                       color |-> C_1d1d1d, lineH |-> 60,
                                       name |-> "Languages Heading"]),
                                 [w |-> mL.w, h |-> lh])
                y1  == rightY + langTitle.h + 32
                y2  == y1 + Len(langRows) * InlineRowH + 48
                skillTitle == txt(aboutSec, "Skills", langX, y2,
                                  Opts([size |-> 64, weight |-> "Bold",
                                        color |-> C_1d1d1d, lineH |-> 60,
                                        name |-> "Skills Heading"]),
                                  [w |-> mL.w, h |-> sth])
                y3  == y2 + skillTitle.h + 16
            IN  /\ nodes' = nodes \o <<langTitle>>
                     \o inlineRows(aboutSec, langX, y1, langRows, mL)
                     \o << skillTitle,
                           txt(aboutSec, "Photoshop, Sketch, Illustrator, Lightroom.",
                               langX, y3,
                               Opts([size |-> 16, weight |-> "Regular",
                                     color |-> C_1d1d1d, fixedW |-> COL - 40,
                                     lineH |-> 30, name |-> "Skills"]),
                               [w |-> COL - 40, h |-> sh]) >>
                /\ rightY' = y3
                /\ pc' = "footer"
                /\ UNCHANGED <<fontIdx, fontsLoaded, root, projSec, aboutSec, Y,
                               ry, rowIdx, leftY, err, closeCalls>>
    /\ UNCHANGED Harness

\* the footer, aboutSec.resize(FW, finalAboutH) and Y += finalAboutH
BuildFooter ==
    /\ pc = "footer"
    /\ \/ Throw(RenderError)
       \/ \E mB \in BtnTextSizes, mE \in FooterEmailSizes :
            LET skillNode == nodes[Len(nodes)]
                fTopY == footerTop(leftY, rightY, skillNode.h)
                aH    == finalAboutH(footerSocialY(
                             footerDivY(footerEmailY(fTopY), mE.h)))
            IN  /\ nodes' = [nodes EXCEPT ![aboutSec].w = FW, ![aboutSec].h = aH]
                              \o footerStrip(Len(nodes), aboutSec, fTopY, mB, mE)
                /\ Y' = Advance(Y, aH)
                /\ pc' = "resize"
                /\ UNCHANGED <<fontIdx, fontsLoaded, root, projSec, aboutSec, ry,
                               rowIdx, leftY, rightY, err, closeCalls>>
    /\ UNCHANGED Harness

\* root.resize(FW, Y)
ResizeRoot ==
    /\ pc = "resize"
    /\ \/ Throw(RenderError)
       \/ /\ nodes' = [nodes EXCEPT ![root].w = FW, ![root].h = Y]
          /\ pc' = "close"
          /\ UNCHANGED <<fontIdx, fontsLoaded, root, projSec, aboutSec, Y, ry,
                         rowIdx, leftY, rightY, err, closeCalls>>
    /\ UNCHANGED Harness

\* figma.viewport.scrollAndZoomIntoView([root]); figma.closePlugin(success)
CloseOk ==
    /\ pc = "close"
    /\ \/ Throw(RenderError)
       \/ /\ closeCalls' = Append(closeCalls, SuccessMessage)
          /\ pc' = "done"
          /\ UNCHANGED <<fontIdx, fontsLoaded, nodes, root, projSec, aboutSec,
                         Y, ry, rowIdx, leftY, rightY, err>>
    /\ UNCHANGED Harness

\* mutant of Catch: the error is swallowed without a report
Catch_swallow ==
    /\ pc = "rejected"
    /\ pc' = "done"
    /\ UNCHANGED <<fontIdx, fontsLoaded, nodes, root, projSec, aboutSec, Y, ry,
                   rowIdx, leftY, rightY, err, closeCalls>>
    /\ UNCHANGED <<hexIn, rgbOut, rowIn, rowOut>>

\* build().catch((err) => figma.closePlugin("Error: " + err.message))
Catch ==
    /\ pc = "rejected"
    /\ closeCalls' = Append(closeCalls, ErrorMessage(err))
    /\ pc' = "done"
    /\ UNCHANGED <<fontIdx, fontsLoaded, nodes, root, projSec, aboutSec, Y, ry,
                   rowIdx, leftY, rightY, err>>
    /\ UNCHANGED Harness

InitBuild ==
    /\ pc = "fonts"
    /\ fontIdx = 1
    /\ fontsLoaded = {}
    /\ nodes = <<>>
    /\ root = 0
    /\ projSec = 0
    /\ aboutSec = 0
    /\ Y = 0
    /\ ry = 0
    /\ rowIdx = 0
    /\ leftY = 0
    /\ rightY = 0
    /\ err = ""
    /\ closeCalls = <<>>

Init ==
    /\ InitBuild
    /\ hexIn = <<>>
    /\ rgbOut = [state |-> "idle", value |-> rgb(<<>>)]
    /\ rowIn = [state |-> "idle"]
    /\ rowOut = <<>>

Next ==
    \/ LoadFont
    \/ CreateRoot
    \/ BuildHero
    \/ BuildProjectsHead
    \/ BuildProjectRow
    \/ BuildAboutLeft
    \/ BuildAboutRight
    \/ BuildFooter
    \/ ResizeRoot
    \/ CloseOk
    \/ Catch

Spec == Init /\ [][Next]_vars

\* structural sanity of the node list: a parent is the page or an earlier frame
ParentsOk ==
    \A i \in 1..Len(nodes) :
        \/ nodes[i].parent = 0
        \/ /\ nodes[i].parent \in 1..(i - 1)
           /\ nodes[nodes[i].parent].type = "FRAME"

----------------------------------------------------------------------------
(* rgb on arbitrary strings: the argument is drawn from every string over *)
(* a small alphabet, and rgb is applied to it.  rgb has no throw          *)
(* statement and slice and parseInt accept any string, so the call        *)
(* returns.                                                                *)

MaxHexLen == 7

RgbAlphabet == {"#", "7", "F", "g", "-"}

HexInputs == UNION {[1..n -> RgbAlphabet] : n \in 0..MaxHexLen}

CallRgb ==
    /\ rgbOut.state = "pending"
    /\ rgbOut' = [state |-> "returned", value |-> rgb(hexIn)]
    /\ UNCHANGED <<hexIn, rowIn, rowOut>>
    /\ UNCHANGED buildVars

InitRgb ==
    /\ InitBuild
    /\ hexIn \in HexInputs
    /\ rgbOut = [state |-> "pending", value |-> rgb(<<>>)]
    /\ rowIn = [state |-> "idle"]
    /\ rowOut = <<>>

NextRgb == CallRgb

SpecRgb == InitRgb /\ [][NextRgb]_vars

----------------------------------------------------------------------------
(* The body of the project loop on arbitrary geometry and entries: the    *)
(* frame and grid widths and the project entry are drawn from small sets, *)
(* the Projects frame is created and one iteration of the loop runs.      *)

FrameWidths == {1440, 1280, 1920}

GridWidths == {1200, 1000, 960}

Entries ==
    [imageLeft : BOOLEAN, imageBg : {C_DDE7E7, C_161616},
     contentBg : {C_DDE7E7, C_161616, C_ffffff}, h : {650, 698},
     title : {"Places2go.co"}, desc : {"Personal projects"},
     role : {"Co-Founder"}, year : {"2017"}, btnLabel : {"VIEW PROJECT"},
     dark : BOOLEAN]

RowInputs == [state : {"ready"}, fw : FrameWidths, gw : GridWidths, p : Entries]

\* the Projects frame, then the loop body for rowIn.p at the first row's place
rowNodes(in, sh, mT, mD, mL, mB) ==
    << frame(0, 0, HERO_H, in.fw, PROJ_TOTAL, C_161616, "Section - Projects") >>
    \o projectRow(1, 1, GXof(in.fw, in.gw), COLof(in.gw), 80 + sh + 40, in.p,
                  mT, mD, mL, mB)

CallProjectRow ==
    /\ rowIn.state = "ready"
    /\ \E mL \in LabelSizes, mB \in BtnTextSizes, sh \in SelHeights,
          th \in TitleHeights, dh \in DescHeights :
          rowOut' = rowNodes(rowIn, sh, [w |-> 400, h |-> th],
                             [w |-> 400, h |-> dh], mL, mB)
    /\ rowIn' = [rowIn EXCEPT !.state = "built"]
    /\ UNCHANGED <<hexIn, rgbOut>>
    /\ UNCHANGED buildVars

InitRow ==
    /\ InitBuild
    /\ hexIn = <<>>
    /\ rgbOut = [state |-> "idle", value |-> rgb(<<>>)]
    /\ rowIn \in RowInputs
    /\ rowOut = <<>>

NextRow == CallProjectRow

SpecRow == InitRow /\ [][NextRow]_vars

----------------------------------------------------------------------------
(* Properties *)

Has(name) == \E i \in 1..Len(nodes) : nodes[i].name = name

NodeNamed(name) == nodes[CHOOSE i \in 1..Len(nodes) : nodes[i].name = name]

ChildrenOf(id) == {i \in 1..Len(nodes) : nodes[i].parent = id}

\* the column frames of the project rows, and the left one of each row
Columns ==
    IF projSec = 0 THEN {}
    ELSE {i \in ChildrenOf(projSec) : nodes[i].type = "FRAME"}

LeftColumns == {i \in Columns : i + 1 \in Columns}

\* C1: the five font loads complete one after another, in the order Regular,
\* Light, Medium, SemiBold, Bold, before any node exists; every text node's
\* font style is one whose load has completed; and when a load fails no node
\* has been created.
C1_FontsBeforeNodes ==
    /\ fontsLoaded = {<<"Regular", "Light", "Medium", "SemiBold", "Bold">>[i] :
                        i \in 1..(fontIdx - 1)}
    /\ nodes # <<>> =>
         fontsLoaded = {"Regular", "Light", "Medium", "SemiBold", "Bold"}
    /\ \A i \in 1..Len(nodes) :
         nodes[i].type = "TEXT" => nodes[i].font \in fontsLoaded
    /\ err = FontLoadError => nodes = <<>>

\* txt has created a Light text and btn a Medium one
C1_Witness ==
    /\ \E i \in 1..Len(nodes) : nodes[i].type = "TEXT" /\ nodes[i].font = "Light"
    /\ \E i \in 1..Len(nodes) : nodes[i].type = "TEXT" /\ nodes[i].font = "Medium"

\* C2: figma.closePlugin is called at most once and exactly once when the run
\* is over: with the success message only after every step, the root resize
\* included, has run, or with "Error: " plus the failure's message; once a
\* step has failed no build step runs and nothing is retried.
C2_StateOk ==
    /\ Len(closeCalls) <= 1
    /\ (pc = "done") <=> (Len(closeCalls) = 1)
    /\ (closeCalls # <<>> /\ err = "") =>
         /\ closeCalls[1] = "Portfolio design created!"
         /\ fontsLoaded = {"Regular", "Light", "Medium", "SemiBold", "Bold"}
         /\ Has("Section - Hero") /\ Has("Footer Divider")
         /\ Cardinality(LeftColumns) = 3
         /\ nodes[root].h = Y /\ nodes[root].h > 100
    /\ (closeCalls # <<>> /\ err = "font unavailable") =>
         closeCalls[1] = "Error: font unavailable"
    /\ (closeCalls # <<>> /\ err = "host call failed") =>
         closeCalls[1] = "Error: host call failed"
    /\ err \in {"", "font unavailable", "host call failed"}
    /\ err # "" => pc \in {"rejected", "done"}
    /\ pc # "done" => ENABLED Next

C2_StepOk ==
    /\ err # "" => /\ nodes' = nodes
                   /\ fontsLoaded' = fontsLoaded
                   /\ err' = err
                   /\ pc' = "done"
    /\ pc = "done" => UNCHANGED vars

C2_ClosedExactlyOnce == [](C2_StateOk) /\ [][C2_StepOk]_vars

\* a failed run that has reported its error
C2_Witness ==
    /\ pc = "done"
    /\ err = "host call failed"
    /\ closeCalls = <<"Error: host call failed">>
    /\ Has("Section - Projects")

\* C3: Hero is at y 0, Projects at Hero's height, About at Hero's height plus
\* Projects' height, and after the success report the root frame is 1440 wide
\* and as high as the three sections together.
C3_SectionsStacked ==
    /\ Has("Section - Hero") => NodeNamed("Section - Hero").y = 0
    /\ projSec # 0 => nodes[projSec].y = NodeNamed("Section - Hero").h
    /\ aboutSec # 0 =>
         nodes[aboutSec].y = NodeNamed("Section - Hero").h + nodes[projSec].h
    /\ closeCalls = <<"Portfolio design created!">> =>
         /\ nodes[root].w = 1440
         /\ nodes[root].h = NodeNamed("Section - Hero").h + nodes[projSec].h
                            + nodes[aboutSec].h

\* a successful run whose skills text wrapped to three lines
C3_Witness ==
    /\ closeCalls = <<"Portfolio design created!">>
    /\ NodeNamed("Skills").h = 90
    /\ nodes[aboutSec].y > 0

\* C4 (as stated): the Projects frame is 1888 high.
C4_Claimed == projSec # 0 => nodes[projSec].h = 1888

\* C4 (amended): the Projects frame's height, the sum
\* 80+120+650+40+700+40+698+80, is 2408.
C4_ProjectsHeight ==
    projSec # 0 =>
      /\ nodes[projSec].h = 2408
      /\ nodes[projSec].h = 80 + 120 + 650 + 40 + 700 + 40 + 698 + 80

C4_Witness == projSec # 0 /\ nodes[projSec].name = "Section - Projects"

\* the nodes of rowOut whose parent is column c, by name
RowNames(c) == {rowOut[i].name : i \in {j \in 1..Len(rowOut) : rowOut[j].parent = c}}

RowColours(out) == {out[2].fills, out[3].fills}

\* the row of the same entry with imageLeft flipped, shaped alike
FlippedRow ==
    rowNodes([rowIn EXCEPT !.p.imageLeft = ~rowIn.p.imageLeft],
             rowOut[2].y - 80 - 40,
             [w |-> 400, h |-> rowOut[5].h], [w |-> 400, h |-> rowOut[6].h],
             [w |-> rowOut[4].w, h |-> rowOut[4].h],
             [w |-> rowOut[13].w, h |-> rowOut[13].h])

\* C5: with imageLeft the image placeholder is in the left column and the
\* title, description, info row and button in the right one, the left column
\* is filled with imageBg and the right with contentBg; without imageLeft the
\* reverse; flipping imageLeft swaps the fills and the roles of the two
\* columns and leaves the set of colours of the row unchanged.
C5_ImageLeftSwaps ==
    rowIn.state = "built" =>
      LET p    == rowIn.p
          img  == {"Text"}
          cont == {"Project Title", "Project Description", "Info", "Button - VIEW PROJECT"}
          ib   == <<[type |-> "SOLID", color |-> rgb(p.imageBg), opacity |-> 100]>>
          cb   == <<[type |-> "SOLID", color |-> rgb(p.contentBg), opacity |-> 100]>>
      IN  /\ rowOut[2].x < rowOut[3].x
          /\ rowOut[2].parent = 1 /\ rowOut[3].parent = 1
          /\ p.imageLeft =>
               /\ RowNames(2) = img /\ RowNames(3) = cont
               /\ rowOut[4].chars = "[Image: Places2go.co]" /\ rowOut[4].parent = 2
               /\ rowOut[2].name = "Places2go.co - Image"
               /\ rowOut[3].name = "Places2go.co - Content"
               /\ rowOut[2].fills = ib /\ rowOut[3].fills = cb
          /\ ~p.imageLeft =>
               /\ RowNames(3) = img /\ RowNames(2) = cont
               /\ rowOut[4].chars = "[Image: Places2go.co]" /\ rowOut[4].parent = 3
               /\ rowOut[3].name = "Places2go.co - Image"
               /\ rowOut[2].name = "Places2go.co - Content"
               /\ rowOut[3].fills = ib /\ rowOut[2].fills = cb
          /\ FlippedRow[2].fills = rowOut[3].fills
          /\ FlippedRow[3].fills = rowOut[2].fills
          /\ FlippedRow[2].name = rowOut[3].name
          /\ FlippedRow[3].name = rowOut[2].name
          /\ RowColours(FlippedRow) = RowColours(rowOut)

\* a row with the image on the right and two different background colours
C5_Witness ==
    /\ rowIn.state = "built"
    /\ ~rowIn.p.imageLeft
    /\ rowIn.p.imageBg # rowIn.p.contentBg
    /\ rowOut[4].parent = 3

\* C6: the x of the title, description, info row and button inside the
\* content column is columnWidth - 400 - round(columnWidth * 0.24), the
\* column width being half the grid width; that is 56 for the 1440 frame
\* with its 1200 grid.
C6_ContentInset ==
    rowIn.state = "built" =>
      LET col == rowIn.gw \div 2
          r   == CHOOSE k \in 0..col :
                   100 * k - 24 * col > -50 /\ 100 * k - 24 * col <= 50
      IN  /\ \A i \in {5, 6, 7, 12} : rowOut[i].x = col - 400 - r
          /\ {rowOut[i].name : i \in {5, 6, 7, 12}} =
               {"Project Title", "Project Description", "Info", "Button - VIEW PROJECT"}
          /\ (rowIn.fw = 1440 /\ rowIn.gw = 1200) => rowOut[5].x = 56

\* a row laid out for another frame and grid width, whose inset is not 56
C6_Witness ==
    /\ rowIn.state = "built"
    /\ rowIn.fw = 1280
    /\ rowIn.gw = 1000
    /\ rowOut[5].x = 500 - 400 - 120

\* the geometry of the rows built so far, with margin m on each side
RowGeometry(m) ==
    /\ \A i \in LeftColumns :
         /\ nodes[i].x = m
         /\ nodes[i].w = 600
         /\ nodes[i + 1].x = nodes[i].x + nodes[i].w
         /\ nodes[i + 1].w = 600
         /\ nodes[i + 1].x + nodes[i + 1].w - nodes[i].x = 1200
         /\ nodes[projSec].w - (nodes[i + 1].x + nodes[i + 1].w) = m
         /\ nodes[i].y = nodes[i + 1].y /\ nodes[i].h = nodes[i + 1].h
    /\ Columns = LeftColumns \cup {i + 1 : i \in LeftColumns}
    /\ projSec # 0 => nodes[projSec].w = 1440

\* C7 (as stated): the 1200px grid leaves 60px margins in the 1440px frame.
C7_Claimed == RowGeometry(60)

\* C7 (amended): the 1200px grid is centred in the 1440px frame with 120px
\* margins on each side, and every row is two 600px columns, the left at the
\* grid's left edge and the right where the left ends.
C7_GridGeometry == RowGeometry(120)

\* the three rows are built
C7_Witness == Cardinality(LeftColumns) = 3 /\ Cardinality(Columns) = 6

\* C9 (as stated): once the rows are laid out, the Projects frame's height is
\* the offset reached by stacking 80, the heading, 40, the rows with 40
\* between them, and 80: the last row ends 80 above the frame's bottom.
C9_Claimed ==
    (projSec # 0 /\ rowIdx > 3) =>
      LET selH == NodeNamed("Selected Projects")
          last == CHOOSE i \in Columns : \A j \in Columns : j <= i
      IN  /\ nodes[projSec].h
               = 80 + selH.h + 40 + 650 + 40 + 700 + 40 + 698 + 80
          /\ nodes[last].y + nodes[last].h + 80 = nodes[projSec].h

\* the footer's nodes, in the order the script creates them
FooterIds ==
    LET b == CHOOSE i \in ChildrenOf(aboutSec) : nodes[i].name = "Button - View LinkedIn"
    IN  <<b, b + 2, b + 3, b + 4>>

\* C10: the footer starts 80 below the lower column bottom (leftY, or the
\* bottom of the skills text); button, e-mail, divider and icons follow one
\* another downward; the About frame ends 80 below the icons; no column node
\* reaches into the footer and every child lies within the frame.
C10_FooterBelowColumns ==
    Has("Footer Divider") =>
      LET sec   == nodes[aboutSec]
          f     == FooterIds
          skill == NodeNamed("Skills")
          icons == {i \in ChildrenOf(aboutSec) :
                      nodes[i].name \in {"Dribbble", "Instagram", "Behance", "Skype"}}
          foot  == {f[1], f[2], f[3]} \cup icons
          lower == IF leftY >= skill.y + skill.h THEN leftY ELSE skill.y + skill.h
      IN  /\ nodes[f[1]].name = "Button - View LinkedIn"
          /\ nodes[f[2]].name = "Footer Email"
          /\ nodes[f[3]].name = "Footer Divider" /\ f[4] \in icons
          /\ Cardinality(icons) = 4
          /\ nodes[f[1]].y = lower + 80
          /\ nodes[f[1]].y + nodes[f[1]].h <= nodes[f[2]].y
          /\ nodes[f[2]].y + nodes[f[2]].h <= nodes[f[3]].y
          /\ nodes[f[3]].y + nodes[f[3]].h <= nodes[f[4]].y
          /\ \A i \in icons : nodes[i].y = nodes[f[4]].y /\ nodes[i].h = 24
          /\ sec.h = nodes[f[4]].y + 24 + 80
          /\ \A i \in ChildrenOf(aboutSec) \ foot :
               nodes[i].y + nodes[i].h <= lower
          /\ \A i \in ChildrenOf(aboutSec) :
               /\ 0 <= nodes[i].y /\ nodes[i].y + nodes[i].h <= sec.h
               /\ 0 <= nodes[i].x /\ nodes[i].x + nodes[i].w <= sec.w

\* the footer under a right column that is the lower one
C10_Witness ==
    /\ Has("Footer Divider")
    /\ rightY + NodeNamed("Skills").h > leftY
    /\ nodes[aboutSec].h # 900

\* the footer under a left column that is the lower one
C10_WitnessLeft ==
    /\ Has("Footer Divider")
    /\ rightY + NodeNamed("Skills").h < leftY

\* whether hex is '#' followed by exactly six hex digits
IsValidHex(hex) ==
    /\ Len(hex) = 7
    /\ hex[1] = "#"
    /\ \A i \in 2..7 : IsHexDigit(hex[i])

InUnit(c) == ~c.nan /\ 0 <= c.num /\ c.num <= c.den /\ c.den = 255

\* C8 (as stated): rgb fails on every string that is not '#' followed by
\* exactly six hex digits, and on a valid one returns three channels n/255
\* with n in 0..255.
C8_Claimed ==
    rgbOut.state # "pending" =>
      IF IsValidHex(hexIn)
      THEN /\ rgbOut.state = "returned"
           /\ InUnit(rgbOut.value.r) /\ InUnit(rgbOut.value.g)
           /\ InUnit(rgbOut.value.b)
      ELSE rgbOut.state = "threw"

\* the part of C8 that holds: a valid string yields channels in [0,1]
C8_ValidInUnit ==
    (rgbOut.state = "returned" /\ IsValidHex(hexIn)) =>
      /\ InUnit(rgbOut.value.r) /\ InUnit(rgbOut.value.g)
      /\ InUnit(rgbOut.value.b)

====
